---- MODULE Spec2Model ----
(***************************************************************************)
(* Artifact ingestion and buffer lifecycle of worldview: the Replace       *)
(* sequencer (src/sequence/replace.rs), the artifact classification and    *)
(* allocation (src/artifact.rs), the per-kind counts (src/pipeline/*.rs),  *)
(* the element sizes (src/model/*.rs, src/element.rs) and the producers    *)
(* that call add/remove (src/inject/playback.rs, src/injector/inotify.rs). *)
(***************************************************************************)
EXTENDS Integers, Sequences, FiniteSets, TLC

VARIABLES artifacts, live, nextId, device, queue, producer, poisoned, mode, prev, last,
          pb, watcher, exit, lock, dir, render, filter

vars == <<artifacts, live, nextId, device, queue, producer, poisoned, mode, prev, last,
          pb, watcher, exit, lock, dir, render, filter>>

\* the state of the producer tasks, of the exit channel and of the table lock
tasks == <<pb, watcher, exit, lock, dir, render, filter>>

(***************************************************************************)
(* Bounds of the model.                                                    *)
(***************************************************************************)
\* number of buffer handles the device hands out before the model stops allocating
MaxHandles == 4

(***************************************************************************)
(* Program constants.                                                      *)
(***************************************************************************)
\* mem::size_of::<model::PlainVertex>() : [f32; 3]
PlainVertexSize == 12
\* mem::size_of::<model::TriFacet>() : [i32; 3]
TriFacetSize == 12
\* mem::size_of::<model::Wireframe>() : [i32; 6]
WireframeSize == 24

(***************************************************************************)
(* File names: sequences of characters.                                    *)
(***************************************************************************)
Digits == {"0", "1", "2", "3", "4", "5", "6", "7", "8", "9"}

DigitVal(c) ==
    CASE c = "0" -> 0 [] c = "1" -> 1 [] c = "2" -> 2 [] c = "3" -> 3
      [] c = "4" -> 4 [] c = "5" -> 5 [] c = "6" -> 6 [] c = "7" -> 7
      [] c = "8" -> 8 [] c = "9" -> 9

FileNames ==
    { <<"1", ".", "a", ".", "p", "l", "y">>,
      <<"2", ".", "a", ".", "p", "l", "y">>,
      <<"1", ".", "b", ".", "p", "l", "y">>,
      <<"a", ".", "p", "l", "y">> }

\* the artifact name of the files 1.a.ply and 2.a.ply
cloudA == <<"a">>

(***************************************************************************)
(* PLY_RE = (?<instance>[0-9]+)\.(?<artifact>.+)\.ply, unanchored,         *)
(* leftmost match, greedy quantifiers.                                     *)
(***************************************************************************)
\* ".ply" starts at position k of fn
PlySuffixAt(fn, k) ==
    /\ k >= 1
    /\ k + 3 <= Len(fn)
    /\ fn[k] = "." /\ fn[k + 1] = "p" /\ fn[k + 2] = "l" /\ fn[k + 3] = "y"

\* a match whose instance is fn[i..j-1] and whose artifact is fn[j+1..k-1]
ReMatch(fn, i, j, k) ==
    /\ 1 <= i /\ i < j /\ j + 1 < k
    /\ \A p \in i..(j - 1) : fn[p] \in Digits
    /\ j <= Len(fn) /\ fn[j] = "."
    /\ PlySuffixAt(fn, k)

ReStarts(fn) ==
    { i \in 1..Len(fn) : \E j \in 1..Len(fn), k \in 1..Len(fn) : ReMatch(fn, i, j, k) }

\* the file names that PLY_RE matches
Matching == { fn \in FileNames : ReStarts(fn) # {} }

\* Regex::is_match
is_match(fn) == fn \in Matching

RECURSIVE Decimal(_)
Decimal(ds) ==
    IF ds = <<>> THEN 0
    ELSE 10 * Decimal(SubSeq(ds, 1, Len(ds) - 1)) + DigitVal(ds[Len(ds)])

\* str::parse::<u32>().ok() : Option<u32> as a set of at most one number; the
\* instance numbers of FileNames are far below 2^32, where the parse fails
parse_u32(ds) == {Decimal(ds)}

\* the named groups of the leftmost, greedy match
groups(fn) ==
    LET i == CHOOSE s \in ReStarts(fn) : \A t \in ReStarts(fn) : s <= t
        j == CHOOSE e \in 1..Len(fn) : \E k \in 1..Len(fn) : ReMatch(fn, i, e, k)
        k == CHOOSE e \in 1..Len(fn) :
                 /\ ReMatch(fn, i, j, e)
                 /\ \A f \in 1..Len(fn) : ReMatch(fn, i, j, f) => f <= e
    IN  [instance |-> SubSeq(fn, i, j - 1), artifact |-> SubSeq(fn, j + 1, k - 1)]

Captures == [fn \in Matching |-> groups(fn)]

\* Regex::captures, where there is a match
captures(fn) == Captures[fn]

(***************************************************************************)
(* Key { instance: Option<u32>, artifact: String }                         *)
(***************************************************************************)
None == {}

Key(instance, artifact) == [instance |-> instance, artifact |-> artifact]

(***************************************************************************)
(* PLY files.  A header is the set of its element definitions, one         *)
(* <<name, count>> per element name (ply::Header.elements).                *)
(***************************************************************************)
VertexCounts == {0, 500, 50000}
FaceCounts == {0, 300}
OtherCounts == {7}

\* "edge" stands for any element name that Element::from does not recognize
ElementNames == {"vertex", "face", "edge"}

CountsOf(name) ==
    CASE name = "vertex" -> VertexCounts
      [] name = "face" -> FaceCounts
      [] OTHER -> OtherCounts

Headers ==
    UNION { { { <<n, f[n]>> : n \in S } : f \in [S -> VertexCounts \cup FaceCounts \cup OtherCounts] }
            : S \in SUBSET ElementNames }

ValidHeaders == { h \in Headers : \A e \in h : e[2] \in CountsOf(e[1]) }

\* header.elements.contains_key(name)
contains_element(header, name) == \E e \in header : e[1] = name

\* header.elements.get(name).unwrap().count, where the element exists
element_count(header, name) == (CHOOSE e \in header : e[1] = name)[2]

\* what File::open and the PLY parser find at a path
\*   missing : the file cannot be opened
\*   garbage : read_header fails
\*   ply     : read_header succeeds; payload says what read_payload_for_element meets
Payloads == {"ok", "truncated", "polygon"}

\* a payload can only be truncated where the header announces a record, and
\* can only hold a polygon where it announces a face
payload_possible(header, payload) ==
    CASE payload = "truncated" -> \E e \in header : e[2] > 0
      [] payload = "polygon" -> \E e \in header : e[1] = "face" /\ e[2] > 0
      [] OTHER -> TRUE

Contents ==
    { [state |-> "missing", header |-> {}, payload |-> "ok"],
      [state |-> "garbage", header |-> {}, payload |-> "ok"] }
    \cup [state : {"ply"}, header : ValidHeaders, payload : {"ok"}]
    \cup { c \in [state : {"ply"},
                  header : { h \in ValidHeaders : ~contains_element(h, "edge") },
                  payload : Payloads] : payload_possible(c.header, c.payload) }

(***************************************************************************)
(* Element (src/element.rs)                                                *)
(***************************************************************************)
\* Element::from : Option<Element> as a set of at most one element
Element_from(name) ==
    CASE name = "vertex" -> {"Vertex"}
      [] name = "face" -> {"Facet"}
      [] OTHER -> {}

\* Element::to_string
Element_to_string(e) == IF e = "Vertex" THEN "vertex" ELSE "face"

\* IntoElement::buffer_too_small for an element type of the given size
buffer_too_small(element_size, element, header, buffer) ==
    IF ~contains_element(header, Element_to_string(element))
    THEN FALSE
    ELSE buffer.size < element_size * element_count(header, Element_to_string(element))

(***************************************************************************)
(* Finite maps                                                             *)
(***************************************************************************)
MapRemove(m, k) == [x \in DOMAIN m \ {k} |-> m[x]]

MapInsert(m, k, v) == [x \in DOMAIN m \cup {k} |-> IF x = k THEN v ELSE m[x]]

Max(S) == CHOOSE x \in S : \A y \in S : y <= x

(***************************************************************************)
(* Artifact (src/artifact.rs) and its kinds (src/pipeline/*.rs)            *)
(***************************************************************************)
Buffer(id, size) == [id |-> id, size |-> size]

BufferIds(artifact) == { artifact.buffers[r].id : r \in DOMAIN artifact.buffers }

\* PointCloud::new : num_vertices
PointCloud_new_count(header) == element_count(header, "vertex")

\* Wireframe::new : num_lines
Wireframe_new_count(header) == element_count(header, "face") \div 2

\* an Artifact::new whose Wireframe vertex buffer has the headroom of a PointCloud
Artifact_new_double(n, header) ==
    LET keys == UNION { Element_from(e[1]) : e \in header }
    IN  IF Cardinality(keys) = 1
        THEN IF "Vertex" \notin keys
             THEN [tag |-> "panic"]
             ELSE [tag |-> "some",
                   artifact |->
                     [kind |-> "PointCloud",
                      buffers |-> [r \in {"vertices"} |->
                          Buffer(n + 1, 2 * PlainVertexSize * element_count(header, "vertex"))],
                      count |-> PointCloud_new_count(header),
                      populated |-> FALSE]]
        ELSE IF Cardinality(keys) = 2
        THEN [tag |-> "some",
              artifact |->
                [kind |-> "Wireframe",
                 buffers |-> [r \in {"vertices", "indices"} |->
                     IF r = "vertices"
                     THEN Buffer(n + 1, 2 * PlainVertexSize * element_count(header, "vertex"))
                     ELSE Buffer(n + 2, 4 * TriFacetSize * element_count(header, "face"))],
                 count |-> Wireframe_new_count(header),
                 populated |-> FALSE]]
        ELSE [tag |-> "none"]

\* Artifact::new : "some" with the artifact, "none", or "panic" (unwrap of None)
Artifact_new(n, header) ==
    LET keys == UNION { Element_from(e[1]) : e \in header }
    IN  IF Cardinality(keys) = 1
        THEN IF "Vertex" \notin keys
             THEN [tag |-> "panic"]
             ELSE [tag |-> "some",
                   artifact |->
                     [kind |-> "PointCloud",
                      buffers |-> [r \in {"vertices"} |->
                          Buffer(n + 1, 2 * PlainVertexSize * element_count(header, "vertex"))],
                      count |-> PointCloud_new_count(header),
                      populated |-> FALSE]]
        ELSE IF Cardinality(keys) = 2
        THEN [tag |-> "some",
              artifact |->
                [kind |-> "Wireframe",
                 buffers |-> [r \in {"vertices", "indices"} |->
                     IF r = "vertices"
                     THEN Buffer(n + 1, 4 * PlainVertexSize * element_count(header, "vertex"))
                     ELSE Buffer(n + 2, 4 * TriFacetSize * element_count(header, "face"))],
                 count |-> Wireframe_new_count(header),
                 populated |-> FALSE]]
        ELSE [tag |-> "none"]

\* a needs_resize that never asks for a reallocation
needs_resize_never(artifact, header) == FALSE

\* Artifact::needs_resize
needs_resize(artifact, header) == TRUE

\* an update_count that leaves the count of the construction in place
update_count_keep(artifact, header) ==
    LET name == IF artifact.kind = "PointCloud" THEN "vertex" ELSE "face"
    IN  IF ~contains_element(header, name)
        THEN [tag |-> "panic"]
        ELSE [tag |-> "some", artifact |-> artifact]

\* update_count of each kind: "some" with the artifact or "panic" (unwrap of None);
\* the counts of VertexCounts and FaceCounts are far below the u32 range
update_count(artifact, header) ==
    LET name == IF artifact.kind = "PointCloud" THEN "vertex" ELSE "face"
        c == element_count(header, name)
    IN  IF ~contains_element(header, name)
        THEN [tag |-> "panic"]
        ELSE [tag |-> "some",
              artifact |-> [artifact EXCEPT
                  !.count = IF artifact.kind = "Wireframe" THEN c * 3 ELSE c]]

\* reading `count` records of an element off the payload fails (unwrap of Err)
read_fails(payload, count) == payload = "truncated" /\ count > 0

\* Artifact::write_buffer : "some" with the artifact written, or "panic"
write_buffer(artifact, header, payload) ==
    LET vertex_ok ==
            /\ contains_element(header, "vertex")
            /\ ~read_fails(payload, element_count(header, "vertex"))
        facet_ok ==
            /\ contains_element(header, "face")
            /\ ~read_fails(payload, element_count(header, "face"))
            /\ ~(artifact.kind = "Wireframe" /\ payload = "polygon"
                    /\ element_count(header, "face") > 0)
    IN  IF artifact.kind = "PointCloud"
        THEN IF vertex_ok
             THEN [tag |-> "some", artifact |-> [artifact EXCEPT !.populated = TRUE]]
             ELSE [tag |-> "panic"]
        ELSE IF vertex_ok /\ facet_ok
             THEN [tag |-> "some", artifact |-> [artifact EXCEPT !.populated = TRUE]]
             ELSE [tag |-> "panic"]

(***************************************************************************)
(* Replace (src/sequence/replace.rs)                                       *)
(***************************************************************************)
Add(key) == [event |-> "Add", key |-> key]

Remove(key) == [event |-> "Remove", key |-> key]

\* a working key that keeps the instance of the file name
working_key_instance(capture) == Key(parse_u32(capture.instance), capture.artifact)

\* the working key of add and remove: the instance is left out
working_key(capture) == Key(None, capture.artifact)

\* the key add computes for its log message only
log_key(capture) == Key(parse_u32(capture.instance), capture.artifact)

\* how a call left the table: the table, the live buffers, the handle counter,
\* the events sent, the largest number of buffers that were live at once, and
\* whether the call ran to its end ("ok"), returned early or panicked
Outcome(t, lv, n, ev, pk, st) ==
    [artifacts |-> t, live |-> lv, nextId |-> n, events |-> ev, peak |-> pk, status |-> st]

\* a populate that returns when the queue is not there, as it would for a
\* device that is not there
populate_return(key, t, lv, n, pk, header, payload) ==
    LET u == update_count(t[key], header)
    IN  IF u.tag = "panic"
        THEN Outcome(t, lv, n, <<>>, pk, "panic")
        ELSE LET t3 == [t EXCEPT ![key] = u.artifact]
                 w == write_buffer(u.artifact, header, payload)
             IN  IF ~queue
                 THEN Outcome(t3, lv, n, <<>>, pk, "return")
                 ELSE IF w.tag = "panic"
                 THEN Outcome(t3, lv, n, <<>>, pk, "panic")
                 ELSE Outcome([t3 EXCEPT ![key] = w.artifact], lv, n, <<Add(key)>>, pk, "ok")

\* Replace::inject, lines 87-95: update the count, write the buffers, notify
populate(key, t, lv, n, pk, header, payload) ==
    LET u == update_count(t[key], header)
    IN  IF u.tag = "panic"
        THEN Outcome(t, lv, n, <<>>, pk, "panic")
        ELSE LET t3 == [t EXCEPT ![key] = u.artifact]
                 w == write_buffer(u.artifact, header, payload)
             IN  IF ~queue
                 THEN Outcome(t3, lv, n, <<>>, pk, "panic")
                 ELSE IF w.tag = "panic"
                 THEN Outcome(t3, lv, n, <<>>, pk, "panic")
                 ELSE Outcome([t3 EXCEPT ![key] = w.artifact], lv, n, <<Add(key)>>, pk, "ok")

\* Replace::inject, lines 65-85: allocate the buffers of a key that has none
allocate(key, t, lv, n, pk, header, payload) ==
    IF ~device
    THEN Outcome(t, lv, n, <<>>, pk, "return")
    ELSE LET r == Artifact_new(n, header)
         IN  IF r.tag = "panic" THEN Outcome(t, lv, n, <<>>, pk, "panic")
             ELSE IF r.tag = "none" THEN Outcome(t, lv, n, <<>>, pk, "return")
             ELSE LET lv2 == lv \cup BufferIds(r.artifact)
                  IN  populate(key, MapInsert(t, key, r.artifact), lv2,
                               n + Cardinality(BufferIds(r.artifact)),
                               Max({pk, Cardinality(lv2)}), header, payload)

\* a discard that ejects every entry of the table with the one of the key
discard_all(key, t, lv, header) ==
    IF key \in DOMAIN t /\ needs_resize(t[key], header)
    THEN [artifacts |-> <<>>, live |-> {}]
    ELSE [artifacts |-> t, live |-> lv]

\* a discard that takes the entry out of the table and keeps its buffers alive
discard_leak(key, t, lv, header) ==
    IF key \in DOMAIN t /\ needs_resize(t[key], header)
    THEN [artifacts |-> MapRemove(t, key), live |-> lv]
    ELSE [artifacts |-> t, live |-> lv]

\* Replace::inject, lines 54-63: drop the entry that needs a resize
discard(key, t, lv, header) ==
    IF key \in DOMAIN t /\ needs_resize(t[key], header)
    THEN [artifacts |-> MapRemove(t, key), live |-> lv \ BufferIds(t[key])]
    ELSE [artifacts |-> t, live |-> lv]

\* Replace::inject
inject(key, content) ==
    IF poisoned \/ content.state = "missing"
    THEN Outcome(artifacts, live, nextId, <<>>, Cardinality(live), "panic")
    ELSE IF content.state = "garbage"
    THEN Outcome(artifacts, live, nextId, <<>>, Cardinality(live), "return")
    ELSE LET d == discard(key, artifacts, live, content.header)
             pk == Cardinality(live)
         IN  IF key \notin DOMAIN d.artifacts
             THEN allocate(key, d.artifacts, d.live, nextId, pk, content.header, content.payload)
             ELSE populate(key, d.artifacts, d.live, nextId, pk, content.header, content.payload)

\* what Replace::add returns after inject has returned
add_result(key) == {key}

\* an add that opens the file before it looks at the name
add_open_first(fn, content) ==
    IF content.state = "missing"
    THEN [out |-> Outcome(artifacts, live, nextId, <<>>, Cardinality(live), "panic"),
          ret |-> None]
    ELSE IF ~is_match(fn)
    THEN [out |-> Outcome(artifacts, live, nextId, <<>>, Cardinality(live), "return"),
          ret |-> None]
    ELSE LET key == working_key(captures(fn))
             out == inject(key, content)
         IN  [out |-> out,
              ret |-> IF out.status = "panic" THEN None ELSE add_result(key)]

\* Replace::add : the outcome of the call and the Option<Key> it returns
add(fn, content) ==
    IF ~is_match(fn)
    THEN [out |-> Outcome(artifacts, live, nextId, <<>>, Cardinality(live), "return"),
          ret |-> None]
    ELSE LET key == working_key(captures(fn))
             out == inject(key, content)
         IN  [out |-> out,
              ret |-> IF out.status = "panic" THEN None ELSE add_result(key)]

\* a remove that returns None when the key has no entry
remove_absent_none(fn) ==
    IF ~is_match(fn)
    THEN [out |-> Outcome(artifacts, live, nextId, <<>>, Cardinality(live), "return"),
          ret |-> None]
    ELSE LET key == working_key(captures(fn))
         IN  IF poisoned
             THEN [out |-> Outcome(artifacts, live, nextId, <<>>, Cardinality(live), "panic"),
                   ret |-> None]
             ELSE IF key \notin DOMAIN artifacts
             THEN [out |-> Outcome(artifacts, live, nextId, <<>>, Cardinality(live), "return"),
                   ret |-> None]
             ELSE [out |-> Outcome(MapRemove(artifacts, key), live \ BufferIds(artifacts[key]),
                                   nextId, <<Remove(key)>>, Cardinality(live), "ok"),
                   ret |-> {key}]

\* Replace::remove
remove(fn) ==
    IF ~is_match(fn)
    THEN [out |-> Outcome(artifacts, live, nextId, <<>>, Cardinality(live), "return"),
          ret |-> None]
    ELSE LET key == working_key(captures(fn))
         IN  IF poisoned
             THEN [out |-> Outcome(artifacts, live, nextId, <<>>, Cardinality(live), "panic"),
                   ret |-> None]
             ELSE LET d == IF key \in DOMAIN artifacts
                           THEN [artifacts |-> MapRemove(artifacts, key),
                                 live |-> live \ BufferIds(artifacts[key])]
                           ELSE [artifacts |-> artifacts, live |-> live]
                  IN  [out |-> Outcome(d.artifacts, d.live, nextId, <<Remove(key)>>,
                                       Cardinality(live), "ok"),
                       ret |-> {key}]

(***************************************************************************)
(* The state machine                                                       *)
(***************************************************************************)
NoContent == [state |-> "none", header |-> {}, payload |-> "ok"]

Modes == {"playback", "notify"}

\* main, lines 119-128: nothing is ingested, the device is not there yet
InitTable ==
    /\ artifacts = <<>>
    /\ live = {}
    /\ nextId = 0
    /\ device = FALSE
    /\ queue = FALSE
    /\ producer = "running"
    /\ poisoned = FALSE
    /\ prev = <<>>
    /\ last = [op |-> "none", file |-> <<>>, content |-> NoContent, ret |-> None,
               events |-> <<>>, status |-> "return", peak |-> 0, liveBefore |-> {}]

\* main, lines 124-140: the exit channel has no receiver, the producer task
\* is spawned and has not run yet, nobody holds the lock on the table
InitTasks ==
    /\ pb = [pc |-> "start", todo |-> <<>>, pass |-> 0, tick |-> FALSE]
    /\ watcher = [pc |-> "start", batch |-> <<>>, inq |-> <<>>, sentinel |-> "start"]
    /\ exit = [sent |-> FALSE, failed |-> FALSE, rx |-> {}, seen |-> {}]
    /\ lock = "free"
    /\ dir = [ok |-> TRUE, files |-> {}]
    /\ render = [pc |-> "idle", pipeline |-> <<>>]
    /\ filter = {}

Init ==
    /\ InitTable
    /\ InitTasks
    /\ mode \in Modes

\* the event loop of the window has ended (window::run has returned, main
\* line 146) and with it the channel of the EventLoopProxy
ChannelClosed == exit.sent \/ exit.failed

\* a send whose error is unwrapped
send_event_unwrap(closed, events) ==
    [delivered |-> IF closed THEN <<>> ELSE events,
     err |-> closed /\ events # <<>>]

\* EventLoopProxy::send_event(..).ok() : the events that reach the consumer;
\* the error of a closed channel is discarded
send_event(closed, events) ==
    [delivered |-> IF closed THEN <<>> ELSE events,
     err |-> FALSE]

\* the effect of one call of the sequencer made by a producer; forwarded is
\* what the producer itself sends to the window after the call
Apply(op, fn, content, r, forwarded) ==
    \E s \in {send_event(ChannelClosed, r.out.events \o forwarded)} :
        /\ artifacts' = r.out.artifacts
        /\ live' = r.out.live
        /\ nextId' = r.out.nextId
        /\ producer' = IF r.out.status = "panic" \/ s.err THEN "panicked" ELSE producer
        /\ poisoned' = (poisoned \/ r.out.status = "panic")
        /\ prev' = artifacts
        /\ last' = [op |-> op, file |-> fn, content |-> content, ret |-> r.ret,
                    events |-> s.delivered,
                    status |-> IF s.err THEN "panic" ELSE r.out.status,
                    peak |-> r.out.peak, liveBefore |-> live]
        /\ UNCHANGED <<device, queue, mode>>

\* WindowState::new publishes the device ...
SetDevice ==
    /\ ~device
    /\ device' = TRUE
    /\ UNCHANGED <<artifacts, live, nextId, queue, producer, poisoned, mode, prev, last>>
    /\ UNCHANGED tasks

\* ... and then the queue
SetQueue ==
    /\ device /\ ~queue
    /\ queue' = TRUE
    /\ UNCHANGED <<artifacts, live, nextId, device, producer, poisoned, mode, prev, last>>
    /\ UNCHANGED tasks

\* playback::run : one iteration of the loop over the directory
PlaybackAdd(fn, content) ==
    /\ mode = "playback"
    /\ producer = "running"
    /\ is_match(fn)
    /\ nextId + 2 <= MaxHandles
    /\ \E r \in {add(fn, content)} : Apply("add", fn, content, r, <<>>)
    /\ UNCHANGED tasks

\* inotify::run : a CLOSE_WRITE event
WatcherCloseWrite(fn, content) ==
    /\ mode = "notify"
    /\ producer = "running"
    /\ nextId + 2 <= MaxHandles
    /\ \E r \in {add(fn, content)} :
           Apply("add", fn, content, r,
                 IF r.ret = None THEN <<>> ELSE <<Add(CHOOSE k \in r.ret : TRUE)>>)
    /\ UNCHANGED tasks

\* inotify::run : a DELETE event
WatcherDelete(fn) ==
    /\ mode = "notify"
    /\ producer = "running"
    /\ \E r \in {remove(fn)} :
           Apply("remove", fn, NoContent, r,
                 IF r.ret = None THEN <<>> ELSE <<Remove(CHOOSE k \in r.ret : TRUE)>>)
    /\ UNCHANGED tasks

Next ==
    \/ SetDevice
    \/ SetQueue
    \/ \E fn \in FileNames, content \in Contents : PlaybackAdd(fn, content)
    \/ \E fn \in FileNames, content \in Contents : WatcherCloseWrite(fn, content)
    \/ \E fn \in FileNames : WatcherDelete(fn)

Spec == Init /\ [][Next]_vars

(***************************************************************************)
(* The needs_resize of each kind (src/pipeline/*.rs) and the bytes that    *)
(* write_buffer copies into each buffer                                    *)
(***************************************************************************)
\* PointCloud::needs_resize
PointCloud_needs_resize(artifact, header) ==
    buffer_too_small(PlainVertexSize, "Vertex", header, artifact.buffers["vertices"])

\* Wireframe::needs_resize and Mesh::needs_resize
Wireframe_needs_resize(artifact, header) ==
    \/ buffer_too_small(PlainVertexSize, "Vertex", header, artifact.buffers["vertices"])
    \/ buffer_too_small(WireframeSize, "Facet", header, artifact.buffers["indices"])

kind_needs_resize(artifact, header) ==
    IF artifact.kind = "PointCloud"
    THEN PointCloud_needs_resize(artifact, header)
    ELSE Wireframe_needs_resize(artifact, header)

\* the bytes Artifact::write_buffer copies into the buffer of a role
required_bytes(kind, role, header) ==
    IF role = "vertices"
    THEN PlainVertexSize * element_count(header, "vertex")
    ELSE (IF kind = "Wireframe" THEN WireframeSize ELSE TriFacetSize)
             * element_count(header, "face")

(***************************************************************************)
(* Properties                                                              *)
(***************************************************************************)
\* the last call was an add that ran to its end: the file was ingested
Ingested == last.op = "add" /\ last.status = "ok"

\* the key the last call returned
LastKey == CHOOSE k \in last.ret : TRUE

\* the last call ingested a file for a key that had an entry before the call
IngestedExisting == Ingested /\ LastKey \in DOMAIN prev

\* the entries stored under an artifact name
EntriesOf(name) == { k \in DOMAIN artifacts : k.artifact = name }

\* C1: the table holds at most one entry per artifact string, whatever the
\* instance numbers of the file names that were added and removed.
C1_OneEntryPerArtifact ==
    \A k1 \in DOMAIN artifacts, k2 \in DOMAIN artifacts :
        k1.artifact = k2.artifact => k1 = k2

\* C1 witness: 2.a.ply was ingested when artifact a already had an entry, and
\* a has exactly one entry.
C1_Witness ==
    /\ Ingested
    /\ last.file = <<"2", ".", "a", ".", "p", "l", "y">>
    /\ \E k \in DOMAIN prev : k.artifact = cloudA
    /\ Cardinality(EntriesOf(cloudA)) = 1

\* C2 (as claimed): an entry that was present before a call is absent after
\* it only if the call was a remove; no add leaves a present key absent.
C2_AbsentOnlyByRemove ==
    \A k \in DOMAIN prev : k \notin DOMAIN artifacts => last.op = "remove"

\* C3 (as claimed): an add on a key that has an entry reallocates the buffers
\* if and only if some existing buffer is smaller than the new header
\* requires; otherwise the buffer handles are those of before the call.
C3_ResizeIffTooSmall ==
    IngestedExisting =>
        (BufferIds(artifacts[LastKey]) # BufferIds(prev[LastKey])
            <=> kind_needs_resize(prev[LastKey], last.content.header))

\* the last call ingested a vertex-only file of n vertices for cloudA
CloudAdd(n) ==
    /\ Ingested
    /\ LastKey.artifact = cloudA
    /\ last.content.header = {<<"vertex", n>>}

\* cloudA was, before the last call, a point cloud of 500 vertices
CloudWas500 ==
    /\ \E k \in DOMAIN prev : k.artifact = cloudA
    /\ LastKey \in DOMAIN prev
    /\ prev[LastKey].kind = "PointCloud"
    /\ prev[LastKey].count = 500
    /\ prev[LastKey].buffers["vertices"].size = 2 * PlainVertexSize * 500

\* C4 (as claimed): 500 vertices into the empty table give a PointCloud of
\* count 500; 500 vertices again keep the buffer handle and the count; 50000
\* vertices change the buffer handle and set the count to 50000.
C4_Scenario ==
    /\ (CloudAdd(500) /\ prev = <<>>) =>
           /\ artifacts[LastKey].kind = "PointCloud"
           /\ artifacts[LastKey].count = 500
    /\ (CloudAdd(500) /\ CloudWas500) =>
           /\ EntriesOf(cloudA) = {LastKey}
           /\ artifacts[LastKey].buffers = prev[LastKey].buffers
           /\ artifacts[LastKey].count = 500
    /\ (CloudAdd(50000) /\ CloudWas500) =>
           /\ EntriesOf(cloudA) = {LastKey}
           /\ artifacts[LastKey].buffers["vertices"].id # prev[LastKey].buffers["vertices"].id
           /\ artifacts[LastKey].count = 50000

\* C5: after every ingestion each buffer of the key's entry is at least as
\* large as the bytes the ingested header requires for it.
C5_CapacitySuffices ==
    Ingested =>
        \A r \in DOMAIN artifacts[LastKey].buffers :
            artifacts[LastKey].buffers[r].size
                >= required_bytes(artifacts[LastKey].kind, r, last.content.header)

\* C5 witness: a file with more records than the key's entry had room for
\* was ingested.
C5_Witness ==
    /\ IngestedExisting
    /\ kind_needs_resize(prev[LastKey], last.content.header)
    /\ element_count(last.content.header, "vertex") > 0

\* the buffers of the key's entry that the last call allocated
FreshRoles ==
    { r \in DOMAIN artifacts[LastKey].buffers :
        artifacts[LastKey].buffers[r].id \notin last.liveBefore }

C7_LiveBuffers ==
    /\ live = UNION { BufferIds(artifacts[k]) : k \in DOMAIN artifacts }
    /\ \A k1 \in DOMAIN artifacts, k2 \in DOMAIN artifacts :
           k1 # k2 => BufferIds(artifacts[k1]) \cap BufferIds(artifacts[k2]) = {}
    /\ \A k \in DOMAIN artifacts : Cardinality(EntriesOf(k.artifact)) = 1
    /\ last.peak <= Max({Cardinality(last.liveBefore), Cardinality(live)})

\* C7 witness: a key's buffers were replaced while another key had an entry.
C7_Witness ==
    /\ IngestedExisting
    /\ BufferIds(artifacts[LastKey]) \cap BufferIds(prev[LastKey]) = {}
    /\ Cardinality(DOMAIN artifacts) = 2

\* C8 (as claimed): an add of a file whose header declares 0 vertices returns
\* None, allocates nothing and leaves the table as it was.
C8_ZeroVertexRejected ==
    (/\ last.op = "add"
     /\ last.content.state = "ply"
     /\ <<"vertex", 0>> \in last.content.header)
        => /\ last.ret = None
           /\ artifacts = prev
           /\ live = last.liveBefore

\* C9 (as claimed): an add of a file whose header cannot be parsed leaves the
\* table unchanged and sends no Added notification.
C9_MalformedSilent ==
    (last.op = "add" /\ last.content.state = "garbage")
        => /\ artifacts = prev
           /\ \A i \in 1..Len(last.events) : last.events[i].event # "Add"

\* C10 (as claimed): add returns a key only when the file was ingested.
C10_SomeOnlyIfIngested ==
    (last.op = "add" /\ last.ret # None) => last.status = "ok"

\* the last call was an add of a file whose header was parsed
AddedPly == last.op = "add" /\ last.content.state = "ply"

\* the key the last call worked on, where the file name matches
CallKey == Key(None, captures(last.file).artifact)

\* C11 (as claimed): whatever the file holds, add returns normally and the
\* producer goes on, so that a later add of a valid file is still ingested.
C11_AddNeverPanics ==
    last.op = "add" => (last.status # "panic" /\ producer = "running" /\ ~poisoned)

\* C12 (as claimed): an add whose header matches no supported element
\* combination (it has no vertex element) leaves the table and the buffers as
\* they were, also when the key has an entry.
C12_UnsupportedUnchanged ==
    (AddedPly /\ ~contains_element(last.content.header, "vertex"))
        => (artifacts = prev /\ live = last.liveBefore)

\* C13 (as claimed): an add made before the device is initialized allocates
\* nothing, leaves the table unchanged, sends no notification and returns.
C13_NotReadyDropped ==
    (AddedPly /\ ~device)
        => /\ artifacts = prev
           /\ live = last.liveBefore
           /\ last.events = <<>>
           /\ last.status = "return"

\* C14: a remove for a key that has no entry raises no error, leaves the
\* table and the buffers of every key unchanged, and returns the key of the
\* path, as a remove of the same path does when the entry exists.
C14_RemoveIdempotent ==
    (last.op = "remove" /\ is_match(last.file) /\ CallKey \notin DOMAIN prev)
        => /\ last.status = "ok"
           /\ last.ret = {CallKey}
           /\ artifacts = prev
           /\ live = last.liveBefore

\* C14 witness: a remove of a path whose key had no entry, while another key
\* had one.
C14_Witness ==
    /\ last.op = "remove"
    /\ is_match(last.file)
    /\ CallKey \notin DOMAIN prev
    /\ DOMAIN prev # {}
    /\ last.ret # None

\* C15 (as claimed): vertex alone gives a PointCloud, vertex with face gives a
\* Wireframe or a Mesh, a header without vertex creates no artifact and is a
\* rejection (add returns normally); unrecognized elements play no part.
C15_Classification ==
    AddedPly =>
        LET h == last.content.header
        IN  /\ (Ingested /\ contains_element(h, "vertex") /\ ~contains_element(h, "face"))
                   => artifacts[LastKey].kind = "PointCloud"
            /\ (Ingested /\ contains_element(h, "vertex") /\ contains_element(h, "face"))
                   => artifacts[LastKey].kind \in {"Wireframe", "Mesh"}
            /\ (is_match(last.file) /\ ~contains_element(h, "vertex"))
                   => /\ last.status = "return"
                      /\ CallKey \notin DOMAIN artifacts

\* the count a kind draws with, for the records of a header
expected_count(kind, header) ==
    CASE kind = "PointCloud" -> element_count(header, "vertex")
      [] kind = "Wireframe" -> 3 * element_count(header, "face")
      [] OTHER -> element_count(header, "face")

\* C16 (as claimed): the count and the contents stored for a key are those of
\* the last file that was ingested for it: an ingestion stores the count of
\* its header, and no other call changes what is stored for a present key.
C16_LatestIngested ==
    \A k \in DOMAIN artifacts :
        IF Ingested /\ k = LastKey
        THEN /\ artifacts[k].count = expected_count(artifacts[k].kind, last.content.header)
             /\ artifacts[k].populated
        ELSE /\ k \in DOMAIN prev
             /\ artifacts[k].count = prev[k].count
             /\ artifacts[k].populated = prev[k].populated
             /\ artifacts[k].populated

(***************************************************************************)
(* The playback task (src/inject/playback.rs), the exit channel of main    *)
(* and the lock on the table.  Replace::inject takes the lock when it is   *)
(* entered and gives it back when it returns, WindowState::redraw does the *)
(* same; the steps of the task are the pieces of run between two points    *)
(* where another thread can act.                                           *)
(***************************************************************************)
\* the largest number of file events waiting in the inotify queue
MaxQueue == 2

\* the bytes of the file names, in increasing order
Alphabet == <<".", "0", "1", "2", "3", "4", "5", "6", "7", "8", "9",
              "_", "a", "b", "e", "i", "l", "n", "p", "s", "t", "x", "y">>

CharRank(c) == CHOOSE i \in 1..Len(Alphabet) : Alphabet[i] = c

\* Ord for PathBuf, on the paths of one directory
RECURSIVE path_lt(_, _)
path_lt(a, b) ==
    IF a = <<>> THEN b # <<>>
    ELSE IF b = <<>> THEN FALSE
    ELSE IF Head(a) = Head(b) THEN path_lt(Tail(a), Tail(b))
    ELSE CharRank(Head(a)) < CharRank(Head(b))

\* the paths in decreasing order
RECURSIVE sorted_reversed(_)
sorted_reversed(S) ==
    IF S = {} THEN <<>>
    ELSE LET m == CHOOSE x \in S : \A y \in S \ {x} : path_lt(y, x)
         IN  <<m>> \o sorted_reversed(S \ {m})

\* Itertools::sorted
RECURSIVE sorted(_)
sorted(S) ==
    IF S = {} THEN <<>>
    ELSE LET m == CHOOSE x \in S : \A y \in S \ {x} : path_lt(x, y)
         IN  <<m>> \o sorted(S \ {m})

\* the filters of the command line: none, or one artifact name
Filters == {{}, {<<"a">>}, {<<"b">>}}

\* Regex::is_match of a literal: it occurs somewhere in the path
contains(path, n) ==
    \E i \in 1..(Len(path) - Len(n) + 1) : SubSeq(path, i, i + Len(n) - 1) = n

\* the filter of the command line is the alternation "(n1|n2|..)" of the
\* names given, "()" when none is given: that one matches every path
filter_is_match(f, fn) == f = {} \/ \E n \in f : contains(fn, n)

\* the directories played back
PlaybackDirs ==
    { {},
      { <<"a", ".", "p", "l", "y">> },
      { <<"1", ".", "a", ".", "p", "l", "y">> },
      FileNames }

\* read_dir(..).filter(ply_path_re).filter(filter).sorted()
Listings == [files \in PlaybackDirs, f \in Filters |->
                sorted({ fn \in files : is_match(fn) /\ filter_is_match(f, fn) })]

listing(files, f) == Listings[files, f]

\* what a file of the directory holds when a task opens it
TaskContents ==
    { [state |-> "missing", header |-> {}, payload |-> "ok"],
      [state |-> "garbage", header |-> {}, payload |-> "ok"],
      [state |-> "ply", header |-> {<<"vertex", 500>>}, payload |-> "ok"],
      [state |-> "ply", header |-> {<<"vertex", 500>>, <<"face", 300>>}, payload |-> "ok"] }

\* the files still offered once MaxHandles buffers have been created
Left(contents) ==
    IF nextId + 2 <= MaxHandles THEN contents
    ELSE { c \in contents : c.state # "ply" }

ContentsLeft == Left(TaskContents)

\* watch::Sender::subscribe : the receiver has seen the current value
subscribe(ch, who) ==
    [ch EXCEPT !.rx = @ \cup {who},
               !.seen = IF ch.sent THEN @ \cup {who} ELSE @ \ {who}]

\* watch::Sender::send : an error when no receiver is left
send(ch) ==
    IF ch.rx = {} THEN [ch EXCEPT !.failed = TRUE]
    ELSE [ch EXCEPT !.sent = TRUE, !.seen = {}]

\* watch::Receiver::changed is ready
changed(ch, who) == who \in ch.rx /\ ch.sent /\ who \notin ch.seen

\* the receiver is dropped with the task that owns it
drop_receiver(ch, who) == [ch EXCEPT !.rx = @ \ {who}, !.seen = @ \ {who}]

\* the guard is still held when inject returns
unlock_kept(l) == l

\* the MutexGuard of inject is dropped when inject returns or unwinds
unlock(l) == "free"

\* the exit branch of the select can be taken at any point of the loop
exit_observable_anywhere(pc) == pc \in {"add", "inject", "select"}

\* the task polls exit.changed() in the select that follows the add, only
exit_observable(pc) == pc = "select"

\* run, lines 17-20
PbStart ==
    /\ mode = "playback"
    /\ pb.pc = "start"
    /\ pb' = [pb EXCEPT !.pc = "list"]
    /\ exit' = subscribe(exit, "playback")
    /\ UNCHANGED <<artifacts, live, nextId, device, queue, producer, poisoned, mode, prev, last>>
    /\ UNCHANGED <<watcher, lock, dir, render, filter>>

\* run, lines 23-36 : the directory is listed, at the start of every pass
PbList ==
    /\ mode = "playback"
    /\ pb.pc = "list"
    /\ IF ~dir.ok
       THEN /\ pb' = [pb EXCEPT !.pc = "panicked"]
            /\ producer' = "panicked"
            /\ exit' = drop_receiver(exit, "playback")
       ELSE /\ pb' = [pb EXCEPT !.todo = listing(dir.files, filter),
                                !.pass = 1 - @,
                                !.pc = IF listing(dir.files, filter) = <<>> THEN "list" ELSE "add"]
            /\ UNCHANGED <<producer, exit>>
    /\ UNCHANGED <<artifacts, live, nextId, device, queue, poisoned, mode, prev, last>>
    /\ UNCHANGED <<watcher, lock, dir, render, filter>>

\* run, lines 37-43, and Replace::inject, line 40 : the interval is reset,
\* add is entered and takes the lock
PbBeginAdd ==
    /\ mode = "playback"
    /\ pb.pc = "add"
    /\ lock = "free"
    /\ lock' = "producer"
    /\ pb' = [pb EXCEPT !.pc = "inject", !.tick = FALSE]
    /\ UNCHANGED <<artifacts, live, nextId, device, queue, producer, poisoned, mode, prev, last>>
    /\ UNCHANGED <<watcher, exit, dir, render, filter>>

\* Replace::add, to its return
PbEndAdd(content) ==
    /\ mode = "playback"
    /\ pb.pc = "inject"
    /\ content \in ContentsLeft
    /\ \E r \in {add(Head(pb.todo), content)} :
          /\ Apply("add", Head(pb.todo), content, r, <<>>)
          /\ pb' = [pb EXCEPT !.pc = IF r.out.status = "panic" THEN "panicked" ELSE "select"]
          /\ exit' = IF r.out.status = "panic" THEN drop_receiver(exit, "playback") ELSE exit
    /\ lock' = unlock(lock)
    /\ UNCHANGED <<watcher, dir, render, filter>>

\* the delay has passed since the interval was reset
Tick ==
    /\ mode = "playback"
    /\ pb.pc \in {"inject", "select"}
    /\ ~pb.tick
    /\ pb' = [pb EXCEPT !.tick = TRUE]
    /\ UNCHANGED <<artifacts, live, nextId, device, queue, producer, poisoned, mode, prev, last>>
    /\ UNCHANGED <<watcher, exit, lock, dir, render, filter>>

\* run, line 52
PbSelectTick ==
    /\ mode = "playback"
    /\ pb.pc = "select"
    /\ pb.tick
    /\ pb' = [pb EXCEPT !.todo = Tail(@),
                        !.pc = IF Tail(pb.todo) = <<>> THEN "list" ELSE "add"]
    /\ UNCHANGED <<artifacts, live, nextId, device, queue, producer, poisoned, mode, prev, last>>
    /\ UNCHANGED <<watcher, exit, lock, dir, render, filter>>

\* run, lines 53-56
PbSelectExit ==
    /\ mode = "playback"
    /\ exit_observable(pb.pc)
    /\ changed(exit, "playback")
    /\ pb' = [pb EXCEPT !.pc = "done"]
    /\ exit' = drop_receiver(exit, "playback")
    /\ UNCHANGED <<artifacts, live, nextId, device, queue, producer, poisoned, mode, prev, last>>
    /\ UNCHANGED <<watcher, lock, dir, render, filter>>

\* main, line 151 : the window has closed
MainExit ==
    /\ ~exit.sent /\ ~exit.failed
    /\ exit' = send(exit)
    /\ UNCHANGED <<artifacts, live, nextId, device, queue, producer, poisoned, mode, prev, last>>
    /\ UNCHANGED <<pb, watcher, lock, dir, render, filter>>

\* a redraw that creates no pipeline
create_pipelines_none(cache, t) == cache

\* WindowState::redraw, lines 204-222 : a pipeline (and with it a bind group
\* and a uniform buffer) of the kind of the artifact is created for every
\* artifact name of the table that has none in the cache; the cache is
\* keyed by the artifact name and nothing is ever taken out of it
create_pipelines(cache, t) ==
    [name \in DOMAIN cache \cup { k.artifact : k \in DOMAIN t } |->
        IF name \in DOMAIN cache THEN cache[name]
        ELSE t[Key(None, name)].kind]

\* WindowState::redraw, lines 194-222 : the render thread, which has published
\* the device and the queue before its first redraw, takes the lock and
\* fills the cache of pipelines; on a poisoned lock lock().unwrap() panics
RedrawLock ==
    /\ device /\ queue
    /\ render.pc = "idle"
    /\ lock = "free"
    /\ IF poisoned
       THEN render' = [render EXCEPT !.pc = "panicked"] /\ lock' = lock
       ELSE /\ render' = [render EXCEPT !.pc = "drawing",
                                         !.pipeline = create_pipelines(@, artifacts)]
            /\ lock' = "render"
    /\ UNCHANGED <<artifacts, live, nextId, device, queue, producer, poisoned, mode, prev, last>>
    /\ UNCHANGED <<pb, watcher, exit, dir, filter>>

\* WindowState::redraw, lines 224-300 : the draw calls look the pipeline and
\* the bind group of every key of the table up in the cache (get(key).unwrap(),
\* lines 269 and 273), the frame is submitted and the lock is given back; a
\* failed lookup panics with the lock held
RedrawUnlock ==
    /\ render.pc = "drawing"
    /\ lock = "render"
    /\ lock' = "free"
    /\ IF \A k \in DOMAIN artifacts : k.artifact \in DOMAIN render.pipeline
       THEN render' = [render EXCEPT !.pc = "idle"] /\ poisoned' = poisoned
       ELSE render' = [render EXCEPT !.pc = "panicked"] /\ poisoned' = TRUE
    /\ UNCHANGED <<artifacts, live, nextId, device, queue, producer, mode, prev, last>>
    /\ UNCHANGED <<pb, watcher, exit, dir, filter>>

InitPlayback ==
    /\ InitTable
    /\ mode = "playback"
    /\ pb = [pc |-> "start", todo |-> <<>>, pass |-> 0, tick |-> FALSE]
    /\ watcher = [pc |-> "start", batch |-> <<>>, inq |-> <<>>, sentinel |-> "start"]
    /\ exit = [sent |-> FALSE, failed |-> FALSE, rx |-> {}, seen |-> {}]
    /\ lock = "free"
    /\ dir \in [ok : BOOLEAN, files : PlaybackDirs]
    /\ render = [pc |-> "idle", pipeline |-> <<>>]
    /\ filter \in {{}, {<<"a">>}}

NextPlayback ==
    \/ SetDevice
    \/ SetQueue
    \/ PbStart
    \/ PbList
    \/ PbBeginAdd
    \/ \E content \in TaskContents : PbEndAdd(content)
    \/ Tick
    \/ PbSelectTick
    \/ PbSelectExit
    \/ MainExit
    \/ RedrawLock
    \/ RedrawUnlock

SpecPlayback == InitPlayback /\ [][NextPlayback]_vars

\* every thread that can run does run; the select takes one of its ready
\* branches at random, and a thread that asks for the lock gets it; the
\* window asks for the next redraw in every redraw
FairPlayback ==
    /\ SpecPlayback
    /\ WF_vars(SetDevice)
    /\ WF_vars(SetQueue)
    /\ WF_vars(RedrawLock)
    /\ WF_vars(PbStart)
    /\ WF_vars(PbList)
    /\ SF_vars(PbBeginAdd)
    /\ WF_vars(\E content \in TaskContents : PbEndAdd(content))
    /\ WF_vars(Tick)
    /\ WF_vars(PbSelectTick)
    /\ SF_vars(PbSelectExit)
    /\ WF_vars(RedrawUnlock)

\* C17: the lock on the table is held for one upsert, remove or read only:
\* whenever the producer task is suspended at an await point (or has ended),
\* it does not hold the lock, so the render thread never waits behind a
\* suspended producer
C17_NoLockAcrossAwait ==
    pb.pc \in {"start", "list", "add", "select", "done", "panicked"} => lock # "producer"

C17_Witness ==
    /\ pb.pc = "select"
    /\ Ingested
    /\ lock = "render"

\* C18: the playback task observes the exit signal only in the select that
\* follows a completed add: it never ends between the start of an add and
\* its return, and once it has observed the signal no add is made
C18_ExitBetweenItems ==
    [][ /\ (pb'.pc = "done" /\ pb.pc # "done") => (pb.pc = "select" /\ last' = last)
        /\ pb.pc = "inject" => pb'.pc \in {"inject", "select", "panicked"}
        /\ pb.pc = "done" => (pb'.pc = "done" /\ last' = last /\ artifacts' = artifacts) ]_vars

C18_Witness ==
    /\ pb.pc = "done"
    /\ Ingested
    /\ ~pb.tick

\* C19: once the exit signal is broadcast, the playback task ends
C19_ExitTerminates ==
    exit.sent ~> (pb.pc \in {"done", "panicked"})

(***************************************************************************)
(* The watcher (src/injector/inotify.rs): the worker that reads the        *)
(* inotify queue, and the task that writes the sentinel on exit            *)
(***************************************************************************)
\* the file name of sentinel_path
SentinelName == <<"e", "x", "i", "t", "_", "s", "e", "n", "t", "i", "n", "e", "l">>

\* the files written to and deleted from the watched directory
WatchedNames == { <<"1", ".", "a", ".", "p", "l", "y">> }

Event(mask, name) == [mask |-> mask, name |-> name]

\* event.name of an event about the watched directory itself: None
NoName == <<>>

\* the events the kernel delivers for the watch: CLOSE_WRITE and DELETE of a
\* file, and IGNORED, with no name, when the watched directory is removed
FsEvents ==
    { Event(mask, name) : mask \in {"CLOSE_WRITE", "DELETE"}, name \in WatchedNames }
    \cup { Event("IGNORED", NoName) }

\* what a watched file holds when the worker opens it
WatcherContents ==
    { [state |-> "garbage", header |-> {}, payload |-> "ok"],
      [state |-> "ply", header |-> {<<"vertex", 500>>}, payload |-> "ok"] }

\* no entry is taken for the sentinel
is_sentinel_never(name) == FALSE

\* run, line 57
is_sentinel(name) == name = SentinelName

\* the kernel queues an event of the watch, while the inotify instance lives
deliver(w, e) ==
    IF w.pc = "reading" THEN [w EXCEPT !.inq = Append(@, e)] ELSE w

\* run, lines 15-48 : the watch is added, the sentinel task is spawned with
\* its receiver, and the worker enters its loop
WStart ==
    /\ mode = "notify"
    /\ watcher.pc = "start"
    /\ IF ~dir.ok
       THEN /\ watcher' = [watcher EXCEPT !.pc = "panicked"]
            /\ producer' = "panicked"
            /\ exit' = exit
       ELSE /\ watcher' = [watcher EXCEPT !.pc = "reading", !.sentinel = "waiting"]
            /\ producer' = producer
            /\ exit' = subscribe(exit, "sentinel")
    /\ UNCHANGED <<artifacts, live, nextId, device, queue, poisoned, mode, prev, last>>
    /\ UNCHANGED <<pb, lock, dir, render, filter>>

\* a file of the directory is closed after a write, or deleted
FsEvent(e) ==
    /\ mode = "notify"
    /\ watcher.pc = "reading"
    /\ dir.ok
    /\ Len(watcher.inq) < MaxQueue
    /\ watcher' = deliver(watcher, e)
    /\ dir' = [dir EXCEPT !.ok = (e.mask # "IGNORED")]
    /\ UNCHANGED <<artifacts, live, nextId, device, queue, producer, poisoned, mode, prev, last>>
    /\ UNCHANGED <<pb, exit, lock, render, filter>>

\* run, lines 37-43 : the sentinel task wakes and touches the sentinel
SentinelTouch ==
    /\ mode = "notify"
    /\ watcher.sentinel = "waiting"
    /\ changed(exit, "sentinel")
    /\ watcher' = [(IF dir.ok THEN deliver(watcher, Event("CLOSE_WRITE", SentinelName))
                               ELSE watcher)
                       EXCEPT !.sentinel = "touched"]
    /\ exit' = [exit EXCEPT !.seen = @ \cup {"sentinel"}]
    /\ UNCHANGED <<artifacts, live, nextId, device, queue, producer, poisoned, mode, prev, last>>
    /\ UNCHANGED <<pb, lock, dir, render, filter>>

\* run, line 46 : the sentinel is removed and the sentinel task ends
SentinelRemove ==
    /\ mode = "notify"
    /\ watcher.sentinel = "touched"
    /\ watcher' = [(IF dir.ok THEN deliver(watcher, Event("DELETE", SentinelName))
                               ELSE watcher)
                       EXCEPT !.sentinel = IF dir.ok THEN "done" ELSE "panicked"]
    /\ exit' = drop_receiver(exit, "sentinel")
    /\ UNCHANGED <<artifacts, live, nextId, device, queue, producer, poisoned, mode, prev, last>>
    /\ UNCHANGED <<pb, lock, dir, render, filter>>

\* run, line 54 : read_events_blocking returns the events that wait
WRead ==
    /\ mode = "notify"
    /\ watcher.pc = "reading"
    /\ watcher.batch = <<>>
    /\ watcher.inq # <<>>
    /\ watcher' = [watcher EXCEPT !.batch = watcher.inq, !.inq = <<>>]
    /\ UNCHANGED <<artifacts, live, nextId, device, queue, producer, poisoned, mode, prev, last>>
    /\ UNCHANGED <<pb, exit, lock, dir, render, filter>>

\* run, lines 57-59 : the worker returns, the events behind the sentinel
\* are left unread
WSentinel ==
    /\ mode = "notify"
    /\ watcher.pc = "reading"
    /\ watcher.batch # <<>>
    /\ is_sentinel(Head(watcher.batch).name)
    /\ watcher' = [watcher EXCEPT !.pc = "done", !.batch = Tail(@)]
    /\ UNCHANGED <<artifacts, live, nextId, device, queue, producer, poisoned, mode, prev, last>>
    /\ UNCHANGED <<pb, exit, lock, dir, render, filter>>

\* run, lines 61-72 : a CLOSE_WRITE event
WCloseWrite(content) ==
    /\ mode = "notify"
    /\ watcher.pc = "reading"
    /\ watcher.batch # <<>>
    /\ ~is_sentinel(Head(watcher.batch).name)
    /\ Head(watcher.batch).mask = "CLOSE_WRITE"
    /\ content \in Left(WatcherContents)
    /\ \E r \in {add(Head(watcher.batch).name, content)} :
          /\ Apply("add", Head(watcher.batch).name, content, r,
                   IF r.ret = None THEN <<>> ELSE <<Add(CHOOSE k \in r.ret : TRUE)>>)
          /\ watcher' = [watcher EXCEPT !.batch = Tail(@),
                            !.pc = IF r.out.status = "panic" THEN "panicked" ELSE @]
    /\ UNCHANGED <<pb, exit, lock, dir, render, filter>>

\* run, lines 61-63 and 73-80 : a DELETE event
WDelete ==
    /\ mode = "notify"
    /\ watcher.pc = "reading"
    /\ watcher.batch # <<>>
    /\ ~is_sentinel(Head(watcher.batch).name)
    /\ Head(watcher.batch).mask = "DELETE"
    /\ \E r \in {remove(Head(watcher.batch).name)} :
          /\ Apply("remove", Head(watcher.batch).name, NoContent, r,
                   IF r.ret = None THEN <<>> ELSE <<Remove(CHOOSE k \in r.ret : TRUE)>>)
          /\ watcher' = [watcher EXCEPT !.batch = Tail(@),
                            !.pc = IF r.out.status = "panic" THEN "panicked" ELSE @]
    /\ UNCHANGED <<pb, exit, lock, dir, render, filter>>

\* run, lines 61-64 and 81-82 : an event of another mask; event.name.unwrap()
\* comes before the match on the mask
WOther ==
    /\ mode = "notify"
    /\ watcher.pc = "reading"
    /\ watcher.batch # <<>>
    /\ ~is_sentinel(Head(watcher.batch).name)
    /\ Head(watcher.batch).mask \notin {"CLOSE_WRITE", "DELETE"}
    /\ IF Head(watcher.batch).name = NoName
       THEN /\ watcher' = [watcher EXCEPT !.batch = Tail(@), !.pc = "panicked"]
            /\ producer' = "panicked"
       ELSE /\ watcher' = [watcher EXCEPT !.batch = Tail(@)]
            /\ producer' = producer
    /\ UNCHANGED <<artifacts, live, nextId, device, queue, poisoned, mode, prev, last>>
    /\ UNCHANGED <<pb, exit, lock, dir, render, filter>>

InitWatcher ==
    /\ InitTable
    /\ mode = "notify"
    /\ pb = [pc |-> "start", todo |-> <<>>, pass |-> 0, tick |-> FALSE]
    /\ watcher = [pc |-> "start", batch |-> <<>>, inq |-> <<>>, sentinel |-> "start"]
    /\ exit = [sent |-> FALSE, failed |-> FALSE, rx |-> {}, seen |-> {}]
    /\ lock = "free"
    /\ dir \in [ok : BOOLEAN, files : {{}}]
    /\ render = [pc |-> "idle", pipeline |-> <<>>]
    /\ filter = {<<"b">>}

NextWatcher ==
    \/ SetDevice
    \/ SetQueue
    \/ WStart
    \/ \E e \in FsEvents : FsEvent(e)
    \/ SentinelTouch
    \/ SentinelRemove
    \/ WRead
    \/ WSentinel
    \/ \E content \in WatcherContents : WCloseWrite(content)
    \/ WDelete
    \/ WOther
    \/ MainExit

SpecWatcher == InitWatcher /\ [][NextWatcher]_vars

\* the worker thread and the sentinel task run whenever they can
FairWatcher ==
    /\ SpecWatcher
    /\ WF_vars(WStart)
    /\ WF_vars(SentinelTouch)
    /\ WF_vars(SentinelRemove)
    /\ WF_vars(WRead)
    /\ WF_vars(WSentinel)
    /\ WF_vars(\E content \in WatcherContents : WCloseWrite(content))
    /\ WF_vars(WDelete)
    /\ WF_vars(WOther)

instance_of(fn) == captures(fn).instance

\* C21: playback waits for the delay only when the next file has another
\* instance number: from one file to the next file of the same instance it
\* goes on without the delay having passed
C21_DelayOnlyOnNewInstance ==
    [][ (/\ pb.pc = "select"
         /\ pb'.pc = "add"
         /\ instance_of(Head(pb.todo)) = instance_of(Head(pb'.todo)))
        => ~pb.tick ]_vars

\* the paths of the directory that match PLY_RE and the filter
Eligible ==
    { fn \in dir.files : is_match(fn) /\ (filter = {} \/ \E n \in filter : contains(fn, n)) }

\* C22: in each pass add is called once for every path that matches the
\* naming convention and the filter, in lexicographic order; after the last
\* path a new pass starts from the first one; and a pass always comes to its
\* end, unless the task has ended
C22_PassOrder ==
    /\ [](LET l == listing(dir.files, filter)
          IN  /\ { l[i] : i \in 1..Len(l) } = Eligible
              /\ \A i, j \in 1..Len(l) : i < j => path_lt(l[i], l[j]))
    /\ [][ /\ (pb.pc = "list" /\ pb'.pc = "add") => pb'.todo = listing(dir.files, filter)
           /\ (pb.pc = "add" /\ pb'.pc # "add") => (pb'.pc = "inject" /\ pb'.todo = pb.todo)
           /\ (pb.pc = "inject" /\ pb'.pc # "inject")
                  => /\ pb'.todo = pb.todo
                     /\ last'.op = "add"
                     /\ last'.file = Head(pb.todo)
           /\ pb.pc # "inject" => last' = last
           /\ (pb.pc = "select" /\ pb'.pc \in {"add", "list"})
                  => /\ pb'.todo = Tail(pb.todo)
                     /\ (pb'.pc = "list") = (Tail(pb.todo) = <<>>) ]_vars
    /\ []<>(pb.pc \in {"list", "done", "panicked"})

C22_Witness ==
    /\ pb.pc = "select"
    /\ pb.pass = 0
    /\ Len(pb.todo) = 1
    /\ Len(listing(dir.files, filter)) = 3
    /\ last.file = <<"2", ".", "a", ".", "p", "l", "y">>

(***************************************************************************)
(* Failures of the producer, seen from the render thread and from main     *)
(***************************************************************************)
\* C23: no failure of the producer reaches the render thread: every read of
\* the table by redraw succeeds, whatever happened in an add before
C23_RenderReadsSucceed == render.pc # "panicked"

\* the window has closed and main has gone on to its exit, or the main thread
\* has panicked
ProcessEnded == exit.sent \/ exit.failed \/ render.pc = "panicked"

\* C24: when the playback directory cannot be read at startup, the process
\* ends: it does not go on with its window open and no producer
C24_StartupErrorEndsProcess ==
    (pb.pc = "panicked" /\ ~dir.ok) ~> ProcessEnded

(***************************************************************************)
(* The states of a key and the notifications to the consumer               *)
(***************************************************************************)
\* the state of key k in table t
KeyState(t, k) ==
    IF k \notin DOMAIN t THEN "Absent"
    ELSE IF t[k].populated THEN "Populated" ELSE "Allocated"

\* C25: a key changes its state by the listed transitions only: it becomes
\* Absent again by a remove only, and no call ends with the key Allocated
\* and not populated
C25_KeyTransitions ==
    [][ \A k \in DOMAIN artifacts \cup DOMAIN artifacts' :
          /\ (KeyState(artifacts, k) # "Absent" /\ KeyState(artifacts', k) = "Absent")
                 => last'.op = "remove"
          /\ KeyState(artifacts', k) # "Allocated" ]_vars

\* C26: a successful add gives the consumer exactly one Add(key), a remove
\* of a matching file name exactly one Remove(key)
C26_OneNotification ==
    /\ Ingested => last.events = <<Add(LastKey)>>
    /\ (last.op = "remove" /\ is_match(last.file) /\ last.status # "panic")
           => last.events = <<Remove(CallKey)>>

\* the worker takes the event at the head of its batch, which names a file
\* that matches PLY_RE
HandlesMatching ==
    /\ watcher.pc = "reading"
    /\ watcher.batch # <<>>
    /\ watcher'.batch = Tail(watcher.batch)
    /\ ~is_sentinel(Head(watcher.batch).name)
    /\ is_match(Head(watcher.batch).name)

\* the key of the event at the head of the batch
HeadKey == Key(None, captures(Head(watcher.batch).name).artifact)

\* C27: with the channel of the consumer closed, add and remove still update
\* the table and return the key; the send that fails is not an error and the
\* producer goes on
C27_ClosedChannelBestEffort ==
    [][ (ChannelClosed /\ HandlesMatching)
        => /\ Head(watcher.batch).mask = "DELETE"
                 => /\ last'.op = "remove"
                    /\ last'.status = "ok"
                    /\ last'.ret = {HeadKey}
                    /\ HeadKey \notin DOMAIN artifacts'
                    /\ watcher'.pc = "reading"
           /\ (/\ Head(watcher.batch).mask = "CLOSE_WRITE"
               /\ device /\ queue
               /\ last'.content.state = "ply")
                 => /\ last'.op = "add"
                    /\ last'.status = "ok"
                    /\ last'.ret = {HeadKey}
                    /\ HeadKey \in DOMAIN artifacts'
                    /\ artifacts'[HeadKey].populated
                    /\ watcher'.pc = "reading" ]_vars

C27_Witness ==
    /\ exit.sent
    /\ Ingested
    /\ last.events = <<>>
    /\ watcher.pc = "reading"

\* C28: for a file name that does not match the naming convention, add and
\* remove return None, leave the table and the buffers as they are, send
\* nothing, and do not open the file (a file that is not there is no failure)
C28_MismatchIgnored ==
    (last.op \in {"add", "remove"} /\ ~is_match(last.file))
        => /\ last.ret = None
           /\ last.status = "return"
           /\ last.events = <<>>
           /\ artifacts = prev
           /\ live = last.liveBefore
           /\ producer = "running"

C28_Witness ==
    /\ last.op = "add"
    /\ ~is_match(last.file)
    /\ last.content.state = "missing"
    /\ artifacts # <<>>

(***************************************************************************)
(* The filter and the events of the watcher                                *)
(***************************************************************************)
\* C29: with a filter configured, no artifact whose name the filter does not
\* match is inserted into the table
C29_FilterRespected ==
    \A k \in DOMAIN artifacts : filter = {} \/ \E n \in filter : contains(k.artifact, n)

\* C30: the worker takes the events in the order of their delivery: a
\* CLOSE_WRITE event gives one add and a DELETE event one remove for the
\* file of the event, an event of another kind is ignored, and nothing is
\* forwarded when the call returned no key
C30_EventsInOrder ==
    [][ /\ (watcher.batch = <<>> /\ watcher'.batch # <<>>)
              => (watcher'.batch = watcher.inq /\ watcher'.inq = <<>>)
        /\ (/\ watcher.pc = "reading"
            /\ watcher.batch # <<>>
            /\ watcher'.batch = Tail(watcher.batch)
            /\ ~is_sentinel(Head(watcher.batch).name))
              => CASE Head(watcher.batch).mask = "CLOSE_WRITE"
                        -> /\ last'.op = "add"
                           /\ last'.file = Head(watcher.batch).name
                           /\ last'.ret = None => last'.events = <<>>
                   [] Head(watcher.batch).mask = "DELETE"
                        -> /\ last'.op = "remove"
                           /\ last'.file = Head(watcher.batch).name
                           /\ last'.ret = None => last'.events = <<>>
                   [] OTHER
                        -> /\ last' = last
                           /\ artifacts' = artifacts
                           /\ watcher'.pc = "reading" ]_vars

(***************************************************************************)
(* The device and the queue, the render loop and its cache of pipelines    *)
(***************************************************************************)
\* C31: an add that finds the device finds the queue as well: no add panics
\* on the lookup of the queue, and none leaves the entry it has inserted
\* unpopulated because the queue was not there yet
C31_QueueFollowsDevice ==
    ~(/\ last.op = "add"
      /\ last.status = "panic"
      /\ device /\ ~queue
      /\ is_match(last.file)
      /\ CallKey \in DOMAIN artifacts
      /\ ~artifacts[CallKey].populated)

\* C32: the render loop never sees a half-applied upsert: while it reads the
\* table under the lock, every entry has its buffers allocated and its
\* contents written, the entry of the file ingested last has the count of
\* that file's header, and every other entry is as it was before that call
C32_NoHalfAppliedUpsert ==
    render.pc = "drawing" =>
        \A k \in DOMAIN artifacts :
            /\ BufferIds(artifacts[k]) \subseteq live
            /\ artifacts[k].populated
            /\ IF Ingested /\ k = LastKey
               THEN artifacts[k].count
                        = expected_count(artifacts[k].kind, last.content.header)
               ELSE k \in DOMAIN prev /\ artifacts[k] = prev[k]

C32_Witness ==
    /\ render.pc = "drawing"
    /\ Ingested
    /\ LastKey \in DOMAIN prev
    /\ prev[LastKey].kind = "PointCloud"
    /\ artifacts[LastKey].kind = "Wireframe"
    /\ artifacts[LastKey].count = 900

C34_PipelineOfStoredKind ==
    render.pc = "drawing" =>
        \A k \in DOMAIN artifacts :
            k.artifact \in DOMAIN render.pipeline
                => render.pipeline[k.artifact] = artifacts[k].kind

\* C35: in every redraw, every key of the table has a pipeline and a bind
\* group in the cache when the draw calls are issued: the lookups of the
\* draw loop do not fail, whatever the producer did before the redraw
C35_DrawLookupsSucceed ==
    [][ (render.pc = "drawing" /\ render'.pc # "drawing")
            => /\ \A k \in DOMAIN artifacts : k.artifact \in DOMAIN render.pipeline
               /\ render'.pc = "idle"
               /\ poisoned' = poisoned ]_vars

\* a key is drawn whose entry was inserted after the redraw before
C35_Witness ==
    /\ render.pc = "drawing"
    /\ Ingested
    /\ Cardinality(DOMAIN artifacts) = 2
    /\ \A k \in DOMAIN artifacts : k.artifact \in DOMAIN render.pipeline

\* C36: an add or a remove for one artifact name leaves the entry of every
\* other artifact name as it was: present as before, with the same kind, the
\* same buffers and the same count
C36_OtherNamesUntouched ==
    last.op \in {"add", "remove"} =>
        \A k \in DOMAIN prev \cup DOMAIN artifacts :
            (~is_match(last.file) \/ k # CallKey)
                => /\ k \in DOMAIN prev
                   /\ k \in DOMAIN artifacts
                   /\ artifacts[k] = prev[k]

\* a key is ingested again while another artifact name has an entry
C36_Witness ==
    /\ IngestedExisting
    /\ artifacts[LastKey] # prev[LastKey]
    /\ \E k \in DOMAIN artifacts : k # LastKey /\ artifacts[k].populated

\* C37: while a key stays present, the capacity of its buffers never
\* decreases: after an add the vertex buffer (and the index buffer, where the
\* key had one) is at least as large as before the add
C37_CapacityMonotone ==
    (/\ last.op = "add"
     /\ is_match(last.file)
     /\ CallKey \in DOMAIN prev
     /\ CallKey \in DOMAIN artifacts)
        => \A r \in DOMAIN prev[CallKey].buffers \cap DOMAIN artifacts[CallKey].buffers :
               artifacts[CallKey].buffers[r].size >= prev[CallKey].buffers[r].size

(***************************************************************************)
(* The exit broadcast of main                                              *)
(***************************************************************************)
\* C38: when the window closes, the exit broadcast of main succeeds: at the
\* moment main sends the signal a producer is subscribed, whatever the
\* order of the start of the producer task, its failure and the closing of
\* the window
C38_ExitBroadcastSucceeds == ~exit.failed

(***************************************************************************)
(* Faces of count 0 and the stored count                                   *)
(***************************************************************************)
\* C39: a file with vertices and a face element of count 0 is classified as
\* a PointCloud or rejected: an add of such a file that runs to its end never
\* leaves a Wireframe or a Mesh with an index buffer of length 0 in the table
C39_NoEmptyIndexBuffer ==
    (/\ AddedPly
     /\ last.status = "ok"
     /\ is_match(last.file)
     /\ contains_element(last.content.header, "vertex")
     /\ element_count(last.content.header, "vertex") > 0
     /\ contains_element(last.content.header, "face")
     /\ element_count(last.content.header, "face") = 0)
        => \/ CallKey \notin DOMAIN artifacts
           \/ artifacts[CallKey].kind = "PointCloud"

\* C40: after every add that ran to its end, a Wireframe stores 3 times the
\* face count of the header just ingested as its number of lines and a
\* PointCloud stores the vertex count of that header; the count that the
\* construction of the artifact has set is not the count it is drawn with
C40_CountOfHeader ==
    Ingested =>
        LET a == artifacts[LastKey]
            h == last.content.header
        IN  /\ a.kind = "Wireframe" => a.count = 3 * element_count(h, "face")
            /\ a.kind = "PointCloud" => a.count = element_count(h, "vertex")

\* a Wireframe of 300 faces, constructed with 150 lines, is stored with 900
C40_Witness ==
    /\ IngestedExisting
    /\ artifacts[LastKey].kind = "Wireframe"
    /\ Wireframe_new_count(last.content.header) = 150
    /\ artifacts[LastKey].count = 900

====
